---- MODULE Spec2Model ----
(***************************************************************************)
(* Model of azure.cosmos.aio._GlobalEndpointManager                        *)
(* (sdk/cosmos/azure-cosmos/azure/cosmos/aio/_global_endpoint_manager_     *)
(* async.py): the refresh / failover protocol of the regional endpoint     *)
(* manager, run by cooperative asyncio coroutines.                         *)
(*                                                                         *)
(* One action is one run of a coroutine between two suspension points.     *)
(* The suspension points are: waiting for refresh_lock when it is taken,   *)
(* the account fetch (GetDatabaseAccount), each health-check probe         *)
(* (_GetDatabaseAccountCheck), asyncio.gather over the probes, and         *)
(* close() awaiting the task it cancelled.  Awaiting a task that is done,  *)
(* acquiring a free lock and calling a coroutine do not suspend.           *)
(***************************************************************************)
EXTENDS Integers, Sequences, FiniteSets, TLC

\* ------------------------------------------------------------------ bounds
\* calls of refresh_endpoint_list / force_refresh_on_startup in flight at once
NumCallers == 3
\* background tasks unfinished at once
MaxTasks == 2
\* last value of the clock
MaxTime == 2

\* refresh_time_interval_in_ms.  The clock of the model counts whole periods
\* longer than the interval: two instants of the same period are less than
\* the interval apart, two instants of different periods are more
RefreshInterval == 0


\* --------------------------------------------------------------- endpoints
DefaultEndpoint == [account |-> "acct", region |-> "global"]
NoEndpoint == [account |-> "", region |-> ""]

\* LocationCache.GetLocationalEndpoint: the regional front door of the account
GetLocationalEndpoint(default, location_name) ==
    [default EXCEPT !.region = location_name]

\* the preferred-location lists a client is constructed with
PreferredChoices == {<< >>, <<"West US">>}

VARIABLES
    now,                \* current_time_millis()
    PreferredLocations, \* client.connection_policy.PreferredLocations
    refresh_needed, last_refresh_time, startup,
    refresh_task,       \* the task object held in self.refresh_task (NoTask: None)
    orphans,            \* unfinished tasks whose handle was overwritten, oldest first
    lock_holder,        \* the call inside "async with self.refresh_lock"
    rnd,                \* the health-check round the lock holder runs inline
    lock_waiters,       \* calls suspended in refresh_lock.acquire(), FIFO
    lc,                 \* the LocationCache
    closer,             \* position of close()
    owed,               \* refresh triggers raised minus refreshes executed
    ev                  \* what the last step made observable to a caller

\* simulate_conversation: its arguments, its locals and its position
VARIABLES
    bots,                 \* names of the bots, bots[1] being the code's bots[0]
    language,
    turn_limit,
    conversation_id,
    conversation_history, \* turns: who spoke, and whether stopping_criteria
                          \* holds of the message
    current_turn,
    pc,                   \* the await the coroutine is suspended at, or how it ended
    calls,                \* index (0-based) of the bot of every generate_response call
    outcome               \* what the last generate_response led to

managerVars == <<now, PreferredLocations, refresh_needed, last_refresh_time, startup,
                 refresh_task, orphans, lock_holder, rnd, lock_waiters, lc, closer,
                 owed, ev>>

simVars == <<bots, language, turn_limit, conversation_id, conversation_history,
             current_turn, pc, calls, outcome>>

\* a PipelineContext and what the last operation on it came to
VARIABLES
    context,              \* the dict's entries and the attributes of the object
    call_result           \* operation, arguments, exception raised, value returned

pipelineVars == <<context, call_result>>

vars == <<managerVars, simVars, pipelineVars>>

\* ------------------------------------------------------------ LocationCache
\* snapshot: which account snapshot was ingested last, by its origin
NoSnapshot == [origin |-> "none", from |-> NoEndpoint]
CallerSnapshot == [origin |-> "caller", from |-> NoEndpoint]
FetchedSnapshot(endpoint) == [origin |-> "fetch", from |-> endpoint]

\* fresh: the derived ordering reflects the snapshot and the marks
LocationCacheInit ==
    [snapshot |-> NoSnapshot, unavailRead |-> {}, unavailWrite |-> {},
     fresh |-> TRUE]

perform_on_database_account_read(l, snapshot) ==
    [l EXCEPT !.snapshot = snapshot, !.fresh = FALSE]

mark_endpoint_available(l, endpoint) ==
    [l EXCEPT !.unavailRead = @ \ {endpoint},
              !.unavailWrite = @ \ {endpoint},
              !.fresh = FALSE]

lc_mark_unavailable_for_read(l, endpoint, refresh_cache) ==
    [l EXCEPT !.unavailRead = @ \cup {endpoint}, !.fresh = refresh_cache]

lc_mark_unavailable_for_write(l, endpoint, refresh_cache) ==
    [l EXCEPT !.unavailWrite = @ \cup {endpoint}, !.fresh = refresh_cache]

update_location_cache(l) == [l EXCEPT !.fresh = TRUE]

\* candidates of a probe round: the endpoints of the preferred regions, which
\* the cache knows from the account snapshot it has ingested
endpoints_to_health_check(l, preferred) ==
    IF l.snapshot = NoSnapshot THEN {}
    ELSE {GetLocationalEndpoint(DefaultEndpoint, preferred[i]) : i \in 1..Len(preferred)}

\* manager.mark_endpoint_unavailable_for_read / _for_write as the probes call them
MarkUnavailableBoth(l, endpoint) ==
    lc_mark_unavailable_for_write(
        lc_mark_unavailable_for_read(l, endpoint, FALSE), endpoint, FALSE)

\* ------------------------------------------------- one health-check round
\* st: "idle" no round, "created" task not started, "fetch" awaiting the account
\* fetch of candidate idx (0 = default, i = PreferredLocations[i]), "gather"
\* awaiting the secondary probes in pending, "ok" | "error" | "cancelled" finished.
\* acts: what the round has done to the LocationCache so far.
\* cancel: task.cancel() was called and CancelledError is not yet delivered.
IdleRound ==
    [st |-> "idle", idx |-> 0, pending |-> {}, acts |-> {}, cancel |-> FALSE]
\* self.refresh_task = None
NoTask == IdleRound
\* asyncio.create_task(self._endpoints_health_check()), line 134
CreatedRound == [IdleRound EXCEPT !.st = "created"]
\* first statement of _endpoints_health_check / _GetDatabaseAccount, line 177
StartedRound == [IdleRound EXCEPT !.st = "fetch"]
\* a finished task keeps its result only
FinishedRound(st) == [IdleRound EXCEPT !.st = st]

RoundDone(r) == r.st \in {"ok", "error", "cancelled"}
RoundLive(r) == r.st \in {"created", "fetch", "gather"}

Candidate(preferred, i) ==
    IF i = 0 THEN DefaultEndpoint
    ELSE GetLocationalEndpoint(DefaultEndpoint, preferred[i])

\* lines 157-161: the endpoints probed after the fetch succeeded at attempted
SecondaryProbes(l, preferred, attempted) ==
    {e \in endpoints_to_health_check(l, preferred) : e # attempted}

\* the round returning at line 162 without awaiting the probes it created
RoundAfterFetchOkNoWait(r, probes) ==
    [r EXCEPT !.st = "ok", !.acts = {"ingest", "update"}]

\* the awaited fetch returned an account (lines 177-180 / 193-196), then
\* _endpoints_health_check lines 155-162; an empty gather does not suspend
RoundAfterFetchOk(r, probes) ==
    IF probes = {}
    THEN [r EXCEPT !.st = "ok", !.acts = {"ingest", "update"}]
    ELSE [r EXCEPT !.st = "gather", !.pending = probes,
                   !.acts = {"ingest", "probe"}]

CacheAfterFetchOk(l, preferred, r) ==
    LET attempted == Candidate(preferred, r.idx)
        l1 == perform_on_database_account_read(
                  mark_endpoint_available(l, attempted),
                  FetchedSnapshot(attempted))
    IN IF SecondaryProbes(l1, preferred, attempted) = {}
       THEN update_location_cache(l1) ELSE l1

\* the loop of line 190 leaving out the locations between the first and the last
RoundAfterFetchFailSkips(r, preferred) ==
    IF r.idx < Len(preferred)
    THEN [r EXCEPT !.idx = Len(preferred)]
    ELSE [r EXCEPT !.st = "error"]

\* "return None at the end" as the comment of lines 181-186 puts it: the round
\* goes on after the last candidate failed
RoundAfterFetchFailReturnsNone(r, preferred) ==
    IF r.idx < Len(preferred)
    THEN [r EXCEPT !.idx = @ + 1]
    ELSE [r EXCEPT !.st = "ok", !.acts = {"ingest", "update"}]

\* the awaited fetch raised CosmosHttpResponseError / AzureError (lines 187-200):
\* next preferred location, or re-raise once the list is exhausted
RoundAfterFetchFail(r, preferred) ==
    IF r.idx < Len(preferred)
    THEN [r EXCEPT !.idx = @ + 1]
    ELSE [r EXCEPT !.st = "error"]

\* lines 188-189 and 198-199 dropped
CacheAfterFetchFailUnmarked(l, preferred, r) == l

CacheAfterFetchFail(l, preferred, r) ==
    MarkUnavailableBoth(l, Candidate(preferred, r.idx))

\* a probe that ends the batch
RoundAfterProbeAborts(r, endpoint) == [r EXCEPT !.pending = {}]
\* _database_account_check (lines 140-146) for one endpoint of the batch
RoundAfterProbe(r, endpoint) == [r EXCEPT !.pending = @ \ {endpoint}]

CacheAfterProbe(l, endpoint, ok) ==
    IF ok THEN mark_endpoint_available(l, endpoint)
    ELSE MarkUnavailableBoth(l, endpoint)

\* asyncio.gather returned: line 164
RoundAfterGather(r) == [r EXCEPT !.st = "ok", !.acts = @ \cup {"update"}]

\* CancelledError is thrown into the task at its suspension point; none of the
\* except clauses of lines 144, 187, 197 catches it, and gather cancels the probes
RoundCancelled(r) == FinishedRound("cancelled")

\* the errors a caller can be handed
NoError == [kind |-> "none", at |-> NoEndpoint]
\* the bare raise of line 200 re-raises the error of the default endpoint's fetch
ExhaustedError(preferred) == [kind |-> "fetch", at |-> DefaultEndpoint]
\* the exception (or CancelledError) stored in a finished task
TaskError == [kind |-> "task", at |-> NoEndpoint]

\* --------------------------------------------------------------- decisions
\* line 110 dropped
IsStaleNever(t, last) == FALSE
\* line 110 measuring from the epoch instead of from the stamp
IsStaleSinceEpoch(t, last) == t > RefreshInterval
\* line 110
IsStale(t, last) == t - last > RefreshInterval
\* line 104
HarvestReady(rt) == rt # NoTask /\ RoundDone(rt)
\* lines 106-107: the handle is cleared after the await returned
HarvestClears(st) == st = "ok"
\* line 108 with a clause for cancellation only
HarvestCaughtCancelOnly(st) == st = "cancelled"
\* line 108: except (Exception, asyncio.CancelledError)
HarvestCaught(st) == st \in {"error", "cancelled"}
\* line 115 dropped: the waiter refreshes whatever it finds
StillNeededNoRecheck(rn) == TRUE
\* line 115
StillNeeded(rn) == rn
\* line 123 never true
UseSnapshotNever(a, st) == FALSE
\* line 123 without the startup test
UseSnapshotAlsoAtStartup(a, st) == a
\* line 123
UseSnapshot(a, st) == a /\ ~st
\* line 128 never true
SlowPathDueNever(sr, rn) == FALSE
\* line 128 asking the location cache only
SlowPathDueCacheOnly(sr, rn) == sr
\* line 128
SlowPathDue(sr, rn) == sr \/ rn
\* line 129 left for after the round
NeededAfterSlowPathKept(rn) == rn
\* line 129: the flag is cleared before the round is created or awaited
NeededAfterSlowPath(rn) == FALSE
\* line 131 with the test inverted
RunInBackgroundAtStartup(st) == st
\* line 131 with the round always awaited by the caller
RunInBackgroundNever(st) == FALSE
\* line 131 without the startup test
RunInBackgroundAlways(st) == TRUE
\* line 131
RunInBackground(st) == ~st
\* line 98 dropped
StartupAfterReturnKept(o, st) == st
\* line 98 run by every returning call
StartupAfterReturnCleared(o, st) == FALSE
\* line 98, reached when refresh_endpoint_list returned normally
StartupAfterReturn(o, st) == IF o = "force" THEN FALSE ELSE st
\* line 138, reached when the inline round returned normally
StartupAfterInline(st) == FALSE

\* a call in flight: the operation, whether a database_account was passed (not
\* read any more once line 123 is past), whether it had to wait for
\* refresh_lock, and what startup was when the call was made
NoCall == [op |-> "none", arg |-> FALSE, waited |-> FALSE, su |-> FALSE]
NewCall(o, a, su) == [op |-> o, arg |-> a, waited |-> FALSE, su |-> su]

\* what a step shows to the caller: how the call went on or ended
\*   "skipped"   returned at line 112, nothing to do
\*   "waiting"   suspended at line 113
\*   "collapsed" returned at line 116
\*   "applied"   returned after lines 124-126
\*   "noop"      returned with the guard of line 128 false
\*   "scheduled" returned after line 134
\*   "inline"    suspended in the round of line 137
\*   "probed"    returned after line 138
\*   "raised"    ended with the error err
\* stale: line 110 was true in this call; logged: line 109 ran in this call;
\* acts: what the call's inline round did; exhausted: every candidate failed.
NoEvent ==
    [how |-> "none", op |-> "none", arg |-> FALSE, waited |-> FALSE,
     su |-> FALSE, stale |-> FALSE, logged |-> FALSE, err |-> NoError, acts |-> {},
     exhausted |-> FALSE]
\* the database_account, the staleness and the wait are recorded where the
\* call got past line 115
CallEvent(how, call, stl, lg) ==
    IF how \in {"skipped", "waiting", "collapsed"}
    THEN [NoEvent EXCEPT !.how = how, !.op = call.op, !.waited = call.waited,
                         !.su = call.su, !.logged = lg]
    ELSE [NoEvent EXCEPT !.how = how, !.op = call.op, !.arg = call.arg,
                         !.waited = call.waited, !.su = call.su,
                         !.stale = stl, !.logged = lg]

ReturnsNormally(how) ==
    how \in {"skipped", "collapsed", "applied", "noop", "scheduled", "probed"}

LiveTasks(rt, orph) == Len(orph) + (IF RoundLive(rt) THEN 1 ELSE 0)

\* ---------------------------------------------------- simulate_conversation
MaxTurnLimit == 3

\* conversation_id = None
NoId == "None"

\* no simulate_conversation call has been made
NoSimulation ==
    /\ bots = << >>
    /\ language = "English"
    /\ turn_limit = 0
    /\ conversation_id = NoId
    /\ conversation_history = << >>
    /\ current_turn = 0
    /\ pc = "none"
    /\ calls = << >>
    /\ outcome = "none"

\* ---------------------------------------------------------- PipelineContext
\* None, and an attribute the object does not have
NoValue == "None"
NoAttribute == "no attribute"

\* {}
EmptyDict == [k \in {} |-> NoValue]

\* no operation has been called
NoCallResult == [op |-> "none", args |-> << >>, raised |-> "none", value |-> NoValue]

\* no PipelineContext has been constructed
NoPipeline ==
    /\ context = [entries |-> EmptyDict, transport |-> NoValue,
                  options |-> EmptyDict, protected |-> NoAttribute]
    /\ call_result = NoCallResult

\* ------------------------------------------------------------------- Init
\* the manager constructed with the flag raised
InitFlagRaised ==
    /\ now = RefreshInterval + 1
    /\ PreferredLocations \in PreferredChoices
    /\ refresh_needed = TRUE
    /\ last_refresh_time = 0
    /\ startup = TRUE
    /\ refresh_task = NoTask
    /\ orphans = << >>
    /\ lock_holder = NoCall
    /\ rnd = IdleRound
    /\ lock_waiters = << >>
    /\ lc = LocationCacheInit
    /\ closer = "open"
    /\ owed = 1
    /\ ev = NoEvent
    /\ NoSimulation
    /\ NoPipeline

\* lines 49-63; the clock is the epoch clock, far past one refresh interval
Init ==
    /\ now = RefreshInterval + 1
    /\ PreferredLocations \in PreferredChoices
    /\ refresh_needed = FALSE
    /\ last_refresh_time = 0
    /\ startup = TRUE
    /\ refresh_task = NoTask
    /\ orphans = << >>
    /\ lock_holder = NoCall
    /\ rnd = IdleRound
    /\ lock_waiters = << >>
    /\ lc = LocationCacheInit
    /\ closer = "open"
    /\ owed = 0
    /\ ev = NoEvent
    /\ NoSimulation
    /\ NoPipeline

\* --------------------------------------------------- refresh_endpoint_list
\* lines 113-120 and _refresh_endpoint_list_private (lines 122-138), run by a
\* call that has just acquired refresh_lock; rn, rt, ow are refresh_needed,
\* refresh_task and owed as the call left them before acquiring.
Critical(call, sr, rn, rt, ow, stl, lg) ==
    IF ~StillNeeded(rn)
    THEN \* line 116
         /\ ev' = CallEvent("collapsed", call, stl, lg)
         /\ startup' = StartupAfterReturn(call.op, startup)
         /\ refresh_needed' = rn /\ refresh_task' = rt /\ owed' = ow
         /\ UNCHANGED <<last_refresh_time, orphans, lock_holder, rnd, lc>>
    ELSE IF UseSnapshot(call.arg, startup)
    THEN \* lines 124-126
         /\ lc' = perform_on_database_account_read(lc, CallerSnapshot)
         /\ refresh_needed' = FALSE
         /\ last_refresh_time' = now
         /\ owed' = ow - 1
         /\ ev' = CallEvent("applied", call, stl, lg)
         /\ startup' = StartupAfterReturn(call.op, startup)
         /\ refresh_task' = rt
         /\ UNCHANGED <<orphans, lock_holder, rnd>>
    ELSE IF ~SlowPathDue(sr, rn)
    THEN /\ ev' = CallEvent("noop", call, stl, lg)
         /\ startup' = StartupAfterReturn(call.op, startup)
         /\ refresh_needed' = rn /\ refresh_task' = rt /\ owed' = ow
         /\ UNCHANGED <<last_refresh_time, orphans, lock_holder, rnd, lc>>
    ELSE IF RunInBackground(startup)
    THEN \* lines 129-134; a task that lost its handle keeps running
         /\ LiveTasks(rt, orphans) < MaxTasks
         /\ refresh_needed' = NeededAfterSlowPath(rn)
         /\ last_refresh_time' = now
         /\ owed' = ow - 1
         /\ orphans' = IF RoundLive(rt) THEN Append(orphans, rt) ELSE orphans
         /\ refresh_task' = CreatedRound
         /\ ev' = CallEvent("scheduled", call, stl, lg)
         /\ startup' = StartupAfterReturn(call.op, startup)
         /\ UNCHANGED <<lock_holder, rnd, lc>>
    ELSE \* lines 129-130, 137: the round runs in the caller, holding the lock
         /\ refresh_needed' = NeededAfterSlowPath(rn)
         /\ last_refresh_time' = now
         /\ owed' = ow - 1
         /\ refresh_task' = rt
         /\ lock_holder' = [call EXCEPT !.arg = FALSE]
         /\ rnd' = StartedRound
         /\ ev' = CallEvent("inline", call, stl, lg)
         /\ UNCHANGED <<startup, orphans, lc>>

\* A caller starts refresh_endpoint_list(database_account) (o = "refresh") or
\* force_refresh_on_startup(database_account) (o = "force") and runs to its
\* first suspension point or to its end.  a: a database_account was passed;
\* sr: what location_cache.should_refresh_endpoints() would answer.
Call(o, a, sr) ==
    /\ closer = "open"
    /\ LET rn0 == IF o = "force" THEN TRUE ELSE refresh_needed
           hv == HarvestReady(refresh_task)
           st == refresh_task.st
           rt1 == IF hv /\ HarvestClears(st) THEN NoTask ELSE refresh_task
           lg == hv /\ ~HarvestClears(st)
           stl == IsStale(now, last_refresh_time)
           rn1 == IF stl THEN TRUE ELSE rn0
           ow0 == owed + (IF rn0 /\ ~refresh_needed THEN 1 ELSE 0)
           ow1 == owed + (IF rn1 /\ ~refresh_needed THEN 1 ELSE 0)
       IN IF hv /\ st # "ok" /\ ~HarvestCaught(st)
          THEN \* the task's exception leaves the try of lines 105-109
               /\ ev' = [CallEvent("raised", NewCall(o, a, startup), FALSE, FALSE)
                           EXCEPT !.err = TaskError]
               /\ refresh_needed' = rn0 /\ owed' = ow0
               /\ UNCHANGED <<last_refresh_time, startup, refresh_task, orphans,
                              lock_holder, rnd, lock_waiters, lc>>
          ELSE IF ~rn1
          THEN \* line 112 false
               /\ ev' = CallEvent("skipped", NewCall(o, a, startup), stl, lg)
               /\ startup' = StartupAfterReturn(o, startup)
               /\ refresh_needed' = rn1 /\ refresh_task' = rt1 /\ owed' = ow1
               /\ UNCHANGED <<last_refresh_time, orphans, lock_holder, rnd,
                              lock_waiters, lc>>
          ELSE IF lock_holder # NoCall \/ lock_waiters # << >>
          THEN \* line 113 suspends in refresh_lock.acquire()
               /\ Len(lock_waiters) + 1 < NumCallers
               /\ lock_waiters' = Append(lock_waiters, [op |-> o, su |-> startup])
               /\ ev' = CallEvent("waiting", NewCall(o, a, startup), stl, lg)
               /\ refresh_needed' = rn1 /\ refresh_task' = rt1 /\ owed' = ow1
               /\ UNCHANGED <<last_refresh_time, startup, orphans, lock_holder,
                              rnd, lc>>
          ELSE /\ Critical(NewCall(o, a, startup), sr, rn1, rt1, ow1, stl, lg)
               /\ UNCHANGED lock_waiters
    /\ UNCHANGED <<simVars, pipelineVars, now, PreferredLocations, closer>>

\* the first waiter is woken with the lock released and enters line 115.
\* A suspended call is kept by its operation and the startup it was made
\* under: its database_account is not read before line 123, so the model draws
\* it (a) when the call gets there.
Acquire(a, sr) ==
    /\ lock_holder = NoCall
    /\ lock_waiters # << >>
    /\ lock_waiters' = Tail(lock_waiters)
    /\ Critical([NewCall(Head(lock_waiters).op, a, Head(lock_waiters).su)
                   EXCEPT !.waited = TRUE], sr,
                refresh_needed, refresh_task, owed, FALSE, FALSE)
    /\ UNCHANGED <<simVars, pipelineVars, now, PreferredLocations, closer>>

\* ------------------------------------- the foreground (startup) round, inline
\* line 138, then the caller leaves the lock and the call returns
InlineReturns(r, exhausted) ==
    /\ startup' = StartupAfterReturn(lock_holder.op, StartupAfterInline(startup))
    /\ lock_holder' = NoCall
    /\ rnd' = IdleRound
    /\ ev' = [CallEvent("probed", lock_holder, FALSE, FALSE)
                EXCEPT !.acts = r.acts, !.exhausted = exhausted]

\* the error leaving line 137 with the lock still held
InlineRaisesKeepsLock(r, e, exhausted) ==
    /\ lock_holder' = lock_holder
    /\ rnd' = IdleRound
    /\ ev' = [CallEvent("raised", lock_holder, FALSE, FALSE)
                EXCEPT !.acts = r.acts, !.err = e, !.exhausted = exhausted]
    /\ UNCHANGED startup

\* the error leaves _endpoints_health_check, line 137, the lock and line 120
InlineRaises(r, e, exhausted) ==
    /\ lock_holder' = NoCall
    /\ rnd' = IdleRound
    /\ ev' = [CallEvent("raised", lock_holder, FALSE, FALSE)
                EXCEPT !.acts = r.acts, !.err = e, !.exhausted = exhausted]
    /\ UNCHANGED startup

\* the round ended in this step, or stays suspended at its next await
InlineGoesOn(r, exhausted) ==
    IF r.st = "error"
    THEN InlineRaises(r, ExhaustedError(PreferredLocations), exhausted)
    ELSE IF r.st = "ok" THEN InlineReturns(r, exhausted)
    ELSE /\ rnd' = r
         /\ ev' = NoEvent
         /\ UNCHANGED <<startup, lock_holder>>

inlineFrame == <<simVars, pipelineVars, now, PreferredLocations, refresh_needed, last_refresh_time,
                 refresh_task, orphans, lock_waiters, closer, owed>>

InlineFetchOk ==
    /\ rnd.st = "fetch"
    /\ LET attempted == Candidate(PreferredLocations, rnd.idx)
           l1 == CacheAfterFetchOk(lc, PreferredLocations, rnd)
       IN /\ lc' = l1
          /\ InlineGoesOn(RoundAfterFetchOk(rnd,
                 SecondaryProbes(l1, PreferredLocations, attempted)), FALSE)
    /\ UNCHANGED inlineFrame

InlineFetchFail ==
    /\ rnd.st = "fetch"
    /\ lc' = CacheAfterFetchFail(lc, PreferredLocations, rnd)
    /\ LET r1 == RoundAfterFetchFail(rnd, PreferredLocations)
           exhausted == rnd.idx = Len(PreferredLocations)
       IN InlineGoesOn(r1, exhausted)
    /\ UNCHANGED inlineFrame

InlineProbe(endpoint, ok) ==
    /\ rnd.st = "gather"
    /\ endpoint \in rnd.pending
    /\ lc' = CacheAfterProbe(lc, endpoint, ok)
    /\ rnd' = RoundAfterProbe(rnd, endpoint)
    /\ ev' = NoEvent
    /\ UNCHANGED <<startup, lock_holder>>
    /\ UNCHANGED inlineFrame

InlineGatherDone ==
    /\ rnd.st = "gather"
    /\ rnd.pending = {}
    /\ lc' = update_location_cache(lc)
    /\ InlineReturns(RoundAfterGather(rnd), FALSE)
    /\ UNCHANGED inlineFrame

\* ------------------------------------------ the background health-check task
\* task 0 is the one held in refresh_task, task i > 0 is orphans[i]
TaskAt(i) == IF i = 0 THEN refresh_task ELSE orphans[i]
HasTask(i) == IF i = 0 THEN refresh_task # NoTask ELSE i <= Len(orphans)

RemoveAt(seq, i) == SubSeq(seq, 1, i - 1) \o SubSeq(seq, i + 1, Len(seq))

\* the task's next state; a finished task nobody holds is gone
TaskBecomes(i, r) ==
    LET r1 == IF RoundDone(r) THEN FinishedRound(r.st) ELSE r
    IN IF i = 0
       THEN /\ refresh_task' = r1
            /\ UNCHANGED orphans
       ELSE /\ orphans' = IF RoundDone(r) THEN RemoveAt(orphans, i)
                          ELSE [orphans EXCEPT ![i] = r1]
            /\ UNCHANGED refresh_task

taskFrame == <<simVars, pipelineVars, now, PreferredLocations, refresh_needed, last_refresh_time,
               startup, lock_holder, rnd, lock_waiters, closer, owed>>

\* the event loop starts tasks in the order line 134 created them: the orphans
\* are older than the task held in refresh_task
StartsNext(i) ==
    \A j \in 1..Len(orphans) : (i = 0 \/ j < i) => orphans[j].st # "created"

\* the event loop runs the created task up to its first fetch (line 177)
TaskStart(i) ==
    /\ HasTask(i)
    /\ TaskAt(i).st = "created" /\ ~TaskAt(i).cancel
    /\ StartsNext(i)
    /\ TaskBecomes(i, StartedRound)
    /\ ev' = NoEvent
    /\ UNCHANGED lc
    /\ UNCHANGED taskFrame

TaskFetchOk(i) ==
    /\ HasTask(i)
    /\ TaskAt(i).st = "fetch" /\ ~TaskAt(i).cancel
    /\ LET attempted == Candidate(PreferredLocations, TaskAt(i).idx)
           l1 == CacheAfterFetchOk(lc, PreferredLocations, TaskAt(i))
       IN /\ lc' = l1
          /\ TaskBecomes(i, RoundAfterFetchOk(TaskAt(i),
                 SecondaryProbes(l1, PreferredLocations, attempted)))
    /\ ev' = NoEvent
    /\ UNCHANGED taskFrame

TaskFetchFail(i) ==
    /\ HasTask(i)
    /\ TaskAt(i).st = "fetch" /\ ~TaskAt(i).cancel
    /\ lc' = CacheAfterFetchFail(lc, PreferredLocations, TaskAt(i))
    /\ TaskBecomes(i, RoundAfterFetchFail(TaskAt(i), PreferredLocations))
    /\ ev' = NoEvent
    /\ UNCHANGED taskFrame

TaskProbe(i, endpoint, ok) ==
    /\ HasTask(i)
    /\ TaskAt(i).st = "gather" /\ ~TaskAt(i).cancel
    /\ endpoint \in TaskAt(i).pending
    /\ lc' = CacheAfterProbe(lc, endpoint, ok)
    /\ TaskBecomes(i, RoundAfterProbe(TaskAt(i), endpoint))
    /\ ev' = NoEvent
    /\ UNCHANGED taskFrame

TaskGatherDone(i) ==
    /\ HasTask(i)
    /\ TaskAt(i).st = "gather" /\ ~TaskAt(i).cancel
    /\ TaskAt(i).pending = {}
    /\ lc' = update_location_cache(lc)
    /\ TaskBecomes(i, RoundAfterGather(TaskAt(i)))
    /\ ev' = NoEvent
    /\ UNCHANGED taskFrame

TaskCancelled(i) ==
    /\ HasTask(i)
    /\ RoundLive(TaskAt(i)) /\ TaskAt(i).cancel
    /\ TaskAt(i).st = "created" => StartsNext(i)
    /\ TaskBecomes(i, RoundCancelled(TaskAt(i)))
    /\ ev' = NoEvent
    /\ UNCHANGED lc
    /\ UNCHANGED taskFrame

\* ------------------------------------------------------------------ close()
\* line 214: the task close() cancels and awaits
CloseTarget(rt) == rt
\* line 218 with a clause for cancellation only
CloseSwallowsCancelOnly(st) == st = "cancelled"
\* line 218: except (Exception, asyncio.CancelledError): pass
CloseSwallows(st) == st \in {"error", "cancelled"}
\* close() ends: it returns, or raises what the awaited task ended with
CloserAfterAwait(st) ==
    IF st = "ok" \/ CloseSwallows(st) THEN "closed" ELSE "raised"
\* a cancelled task that has not finished yet
CancelPending ==
    \E i \in 0..Len(orphans) : HasTask(i) /\ RoundLive(TaskAt(i)) /\ TaskAt(i).cancel

closeFrame == <<simVars, pipelineVars, now, PreferredLocations, refresh_needed, last_refresh_time,
                startup, orphans, lock_holder, rnd, lock_waiters, lc, owed>>

\* lines 214-217: cancel() and the start of the await; a task that is done
\* already is awaited without suspending, and what it raises is swallowed
CloseCall ==
    /\ closer = "open"
    /\ lock_holder = NoCall /\ lock_waiters = << >>
    /\ IF RoundLive(CloseTarget(refresh_task))
       THEN /\ refresh_task' = [refresh_task EXCEPT !.cancel = TRUE]
            /\ closer' = "await"
            /\ ev' = NoEvent
       ELSE /\ closer' = IF CloseTarget(refresh_task) = NoTask THEN "closed"
                       ELSE CloserAfterAwait(CloseTarget(refresh_task).st)
            /\ ev' = [NoEvent EXCEPT !.how = closer']
            /\ UNCHANGED refresh_task
    /\ UNCHANGED closeFrame

\* lines 217-219: the awaited task finished; its CancelledError is swallowed
CloseReturn ==
    /\ closer = "await"
    /\ ~CancelPending
    /\ closer' = CloserAfterAwait("cancelled")
    /\ ev' = [NoEvent EXCEPT !.how = closer']
    /\ UNCHANGED refresh_task
    /\ UNCHANGED closeFrame

\* ------------------------------------------------ marks reported by callers
\* the marks as the request layer may expect them: refresh_cache raises the
\* manager's flag
MarkRefreshNeededOnRefreshCache(rn, refresh_cache) == rn \/ refresh_cache
\* lines 80-84: the LocationCache is told, the manager's flag is not touched
MarkRefreshNeeded(rn, refresh_cache) == rn

\* the endpoints the request layer reports
MarkTargets == {DefaultEndpoint}

MarkUnavailable(kind, endpoint, refresh_cache) ==
    /\ lc' = IF kind = "read"
             THEN lc_mark_unavailable_for_read(lc, endpoint, refresh_cache)
             ELSE lc_mark_unavailable_for_write(lc, endpoint, refresh_cache)
    /\ refresh_needed' = MarkRefreshNeeded(refresh_needed, refresh_cache)
    /\ owed' = owed + (IF refresh_needed' /\ ~refresh_needed THEN 1 ELSE 0)
    /\ ev' = [NoEvent EXCEPT !.how = "marked", !.arg = refresh_cache]
    /\ UNCHANGED <<simVars, pipelineVars, now, PreferredLocations, last_refresh_time, startup,
                   refresh_task, orphans, lock_holder, rnd, lock_waiters, closer>>

\* --------------------------------------------------- endpoint resolution
\* lines 68-78: get_write_endpoint ("write"), get_read_endpoint ("read") and
\* _resolve_service_endpoint ("request") are plain functions that return what
\* the LocationCache answers; they can be called in any state
ResolveKinds == {"write", "read", "request"}

\* a resolution that resets the time of the last refresh
ResolveRefreshStateResetsTime(rs) == <<rs[1], 0, rs[3], rs[4]>>
\* a resolution that asks for a refresh
ResolveRefreshStateAsksRefresh(rs) == <<TRUE, rs[2], rs[3], rs[4]>>
\* the refresh state after a resolution
ResolveRefreshState(rs) == rs

ResolveEndpoint(kind) ==
    /\ LET after == ResolveRefreshState(<<refresh_needed, last_refresh_time,
                                          startup, refresh_task>>)
       IN /\ refresh_needed' = after[1]
          /\ last_refresh_time' = after[2]
          /\ startup' = after[3]
          /\ refresh_task' = after[4]
    /\ ev' = [NoEvent EXCEPT !.how = "resolved", !.op = kind]
    /\ UNCHANGED <<simVars, pipelineVars, now, PreferredLocations, orphans, lock_holder, rnd,
                   lock_waiters, lc, closer, owed>>

\* -------------------------------------------------------------------- clock
Tick ==
    /\ now < MaxTime
    /\ now' = now + 1
    /\ ev' = NoEvent
    /\ UNCHANGED <<simVars, pipelineVars, PreferredLocations, refresh_needed, last_refresh_time,
                   startup, refresh_task, orphans, lock_holder, rnd, lock_waiters,
                   lc, closer, owed>>

Refresh ==
    \/ \E o \in {"refresh", "force"}, a \in BOOLEAN, sr \in BOOLEAN : Call(o, a, sr)
    \/ \E a \in BOOLEAN, sr \in BOOLEAN : Acquire(a, sr)
    \/ InlineFetchOk
    \/ InlineFetchFail
    \/ \E e \in rnd.pending, ok \in BOOLEAN : InlineProbe(e, ok)
    \/ InlineGatherDone
    \/ \E i \in 0..MaxTasks : TaskStart(i)
    \/ \E i \in 0..MaxTasks : TaskFetchOk(i)
    \/ \E i \in 0..MaxTasks : TaskFetchFail(i)
    \/ \E i \in 0..MaxTasks : \E e \in (IF HasTask(i) THEN TaskAt(i).pending ELSE {}),
          ok \in BOOLEAN : TaskProbe(i, e, ok)
    \/ \E i \in 0..MaxTasks : TaskGatherDone(i)
    \/ \E i \in 0..MaxTasks : TaskCancelled(i)
    \/ CloseCall
    \/ CloseReturn
    \/ Tick

Next == Refresh

\* the manager under refresh calls, its tasks, close() and the clock
Spec == Init /\ [][Next]_vars

\* the event loop runs a woken waiter, and every fetch and probe, in the
\* caller or in a task, eventually succeeds or fails
InlineSteps ==
    \/ InlineFetchOk
    \/ InlineFetchFail
    \/ \E e \in rnd.pending, ok \in BOOLEAN : InlineProbe(e, ok)
    \/ InlineGatherDone

TaskSteps ==
    \E i \in 0..MaxTasks :
        \/ TaskStart(i)
        \/ TaskFetchOk(i)
        \/ TaskFetchFail(i)
        \/ \E e \in (IF HasTask(i) THEN TaskAt(i).pending ELSE {}),
              ok \in BOOLEAN : TaskProbe(i, e, ok)
        \/ TaskGatherDone(i)
        \/ TaskCancelled(i)

SpecProgress ==
    /\ Init /\ [][Next]_vars
    /\ WF_vars(\E a \in BOOLEAN, sr \in BOOLEAN : Acquire(a, sr))
    /\ WF_vars(InlineSteps)
    /\ WF_vars(TaskSteps)

\* the same with the request layer reporting endpoints
NextMark ==
    \/ Refresh
    \/ \E k \in {"read", "write"}, e \in MarkTargets, rc \in BOOLEAN :
          MarkUnavailable(k, e, rc)

SpecMark == Init /\ [][NextMark]_vars

\* the same with the request layer resolving endpoints as well
NextRequests ==
    \/ Refresh
    \/ \E k \in {"read", "write"}, e \in MarkTargets, rc \in BOOLEAN :
          MarkUnavailable(k, e, rc)
    \/ \E kind \in ResolveKinds : ResolveEndpoint(kind)

SpecRequests == Init /\ [][NextRequests]_vars

\* ------------------------------------------------ two preferred locations
\* the manager of a client configured with two preferred locations and used
\* by one caller at a time: no call is made that would have to wait for
\* refresh_lock, none that would start a task while one is unfinished
FailoverLocations == <<"West US", "East US">>

InitFailover ==
    /\ now = RefreshInterval + 1
    /\ PreferredLocations = FailoverLocations
    /\ refresh_needed = FALSE
    /\ last_refresh_time = 0
    /\ startup = TRUE
    /\ refresh_task = NoTask
    /\ orphans = << >>
    /\ lock_holder = NoCall
    /\ rnd = IdleRound
    /\ lock_waiters = << >>
    /\ lc = LocationCacheInit
    /\ closer = "open"
    /\ owed = 0
    /\ ev = NoEvent
    /\ NoSimulation
    /\ NoPipeline

NextFailover ==
    \/ \E o \in {"refresh", "force"}, a \in BOOLEAN, sr \in BOOLEAN :
          Call(o, a, sr) /\ lock_waiters' = << >> /\ orphans' = << >>
    \/ InlineFetchOk
    \/ InlineFetchFail
    \/ \E e \in rnd.pending, ok \in BOOLEAN : InlineProbe(e, ok)
    \/ InlineGatherDone
    \/ TaskStart(0)
    \/ TaskFetchOk(0)
    \/ TaskFetchFail(0)
    \/ \E e \in refresh_task.pending, ok \in BOOLEAN : TaskProbe(0, e, ok)
    \/ TaskGatherDone(0)
    \/ TaskCancelled(0)
    \/ CloseCall
    \/ CloseReturn
    \/ Tick

SpecFailover == InitFailover /\ [][NextFailover]_vars

\* ---------------------------------------------------- simulate_conversation
\* the bot lists, languages and turn limits a conversation is simulated with;
\* "Klingon" stands for a value that is not a SupportedLanguages member
BotChoices == {<<"user">>, <<"user", "assistant">>, <<"user", "assistant", "critic">>}
LanguageChoices == {"English", "Spanish", "Klingon"}
SupportedLanguages == {"English", "Spanish"}

\* what an awaited generate_response can come to: it raises, or it returns a
\* response that has an "id" or not, has samples[0] or not, and whose message
\* satisfies stopping_criteria or not
Raised == [kind |-> "raised", id |-> FALSE, samples |-> FALSE, closing |-> FALSE]
Responses ==
    {Raised} \cup [kind : {"returned"}, id : BOOLEAN, samples : BOOLEAN,
                   closing : BOOLEAN]

\* lines 129-135 and 164-170
ConversationTurn(name, closing) == [name |-> name, closing |-> closing]

\* line 143 with the turn limit included
LoopConditionInclusive(history, turn, limit) ==
    ~history[Len(history)].closing /\ turn <= limit
\* line 143
LoopCondition(history, turn, limit) ==
    ~history[Len(history)].closing /\ turn < limit

\* line 145
current_character_idx(turn, n) == turn % n

\* line 177 moved into the try block
TurnAfterIterationInTry(turn, appended) == IF appended THEN turn + 1 ELSE turn
\* line 177, after the try statement
TurnAfterIteration(turn, appended) == turn + 1

\* lines 143-155 and 182: the loop test, then the next generate_response is
\* awaited or the function returns
LoopOrReturn(history, turn) ==
    IF LoopCondition(history, turn, turn_limit)
    THEN /\ pc' = "turn"
         /\ calls' = Append(calls, current_character_idx(turn, Len(bots)))
    ELSE /\ pc' = "returned"
         /\ calls' = calls

\* lines 107-143: the first generate_response ends
FirstResponse(r) ==
    /\ pc = "first"
    /\ IF r.kind = "raised" \/ ~r.samples \/ language \notin SupportedLanguages
       THEN \* lines 107, 117 and 120 raise out of the function
            /\ pc' = "raised"
            /\ outcome' = "raised"
            /\ UNCHANGED <<conversation_id, conversation_history, current_turn, calls>>
       ELSE /\ conversation_id' = IF r.id THEN "id" ELSE NoId
            /\ conversation_history' = <<ConversationTurn(bots[1], r.closing)>>
            /\ current_turn' = 1
            /\ outcome' = "appended"
            /\ LoopOrReturn(conversation_history', 1)
    /\ UNCHANGED <<bots, language, turn_limit, managerVars, pipelineVars>>

\* lines 149-180: the generate_response of a later turn ends, the turn is
\* appended or the exception logged, and the coroutine sleeps
TurnResponse(r) ==
    /\ pc = "turn"
    /\ LET current_bot == bots[calls[Len(calls)] + 1]
           appended == r.kind = "returned" /\ r.samples
       IN /\ conversation_id' =
                IF r.kind = "returned" /\ conversation_id = NoId /\ r.id
                THEN "id" ELSE conversation_id
          /\ conversation_history' =
                IF appended
                THEN Append(conversation_history, ConversationTurn(current_bot, r.closing))
                ELSE conversation_history
          /\ outcome' = IF appended THEN "appended" ELSE "warned"
          /\ current_turn' = TurnAfterIteration(current_turn, appended)
    /\ pc' = "sleep"
    /\ UNCHANGED <<bots, language, turn_limit, calls, managerVars, pipelineVars>>

\* line 180 ends and the loop test is made
SleepReturns ==
    /\ pc = "sleep"
    /\ LoopOrReturn(conversation_history, current_turn)
    /\ UNCHANGED <<bots, language, turn_limit, conversation_id,
                   conversation_history, current_turn, outcome, managerVars, pipelineVars>>

\* simulate_conversation has been called and awaits bots[0] at line 107; no
\* endpoint manager takes part
InitSimulate ==
    /\ bots \in BotChoices
    /\ language \in LanguageChoices
    /\ turn_limit \in 0..MaxTurnLimit
    /\ conversation_id = NoId
    /\ conversation_history = << >>
    /\ current_turn = 0
    /\ pc = "first"
    /\ calls = <<0>>
    /\ outcome = "none"
    /\ now = RefreshInterval + 1
    /\ PreferredLocations = << >>
    /\ refresh_needed = FALSE
    /\ last_refresh_time = 0
    /\ startup = TRUE
    /\ refresh_task = NoTask
    /\ orphans = << >>
    /\ lock_holder = NoCall
    /\ rnd = IdleRound
    /\ lock_waiters = << >>
    /\ lc = LocationCacheInit
    /\ closer = "open"
    /\ owed = 0
    /\ ev = NoEvent
    /\ NoPipeline

NextSimulate ==
    \/ \E r \in Responses : FirstResponse(r)
    \/ \E r \in Responses : TurnResponse(r)
    \/ SleepReturns

\* every generate_response returns or raises and every sleep ends
SpecSimulate == InitSimulate /\ [][NextSimulate]_vars /\ WF_vars(NextSimulate)

\* ---------------------------------------------------------- PipelineContext
\* the keys, items, transports and keyword arguments the context is used with
ContextKeys == {"transport", "options", "deserialized_data", "retry_count"}
ContextItems == {"a", "b"}
TransportChoices == {NoValue, "RequestsTransport"}
KwargsChoices == {EmptyDict, [k \in {"stream"} |-> "a"]}

\* the positional arguments pop is called with: none, a key, a key and a default
PopArgs ==
    {<< >>} \cup {<<k>> : k \in ContextKeys}
            \cup {<<k, d>> : k \in ContextKeys, d \in ContextItems \cup {NoValue}}

\* the mappings update is called with
UpdateArgs == {EmptyDict} \cup {[k \in {key} |-> "b"] : key \in ContextKeys}

\* lines 64-67: the dict itself starts empty, kwargs become options
PipelineContext(transport, kwargs) ==
    [entries |-> EmptyDict, transport |-> transport, options |-> kwargs,
     protected |-> <<"transport", "options">>]

\* how a method ends: the object after it, the exception, the value returned
MethodResult(self, raised, value) ==
    [self |-> self, raised |-> raised, value |-> value]

\* key in self._protected
InProtected(self, key) ==
    \E i \in 1..Len(self.protected) : self.protected[i] = key

\* dict.__setitem__, dict.__delitem__, dict.pop
dict_setitem(self, key, item) ==
    MethodResult([self EXCEPT !.entries =
                     [k \in DOMAIN @ \cup {key} |-> IF k = key THEN item ELSE @[k]]],
                 "none", NoValue)

dict_delitem(self, key) ==
    IF key \in DOMAIN self.entries
    THEN MethodResult([self EXCEPT !.entries = [k \in DOMAIN @ \ {key} |-> @[k]]],
                      "none", NoValue)
    ELSE MethodResult(self, "KeyError", NoValue)

dict_pop(self, args) ==
    IF Len(args) = 0 THEN MethodResult(self, "TypeError", NoValue)
    ELSE IF args[1] \in DOMAIN self.entries
    THEN MethodResult([self EXCEPT !.entries = [k \in DOMAIN @ \ {args[1]} |-> @[k]]],
                      "none", self.entries[args[1]])
    ELSE IF Len(args) = 2 THEN MethodResult(self, "none", args[2])
    ELSE MethodResult(self, "KeyError", NoValue)

\* dict.clear
dict_clear(self) == MethodResult([self EXCEPT !.entries = EmptyDict], "none", NoValue)

\* line 98 dropped
SetItemRefusedNever(self, key) == FALSE
\* line 98
SetItemRefused(self, key) ==
    self.protected # NoAttribute /\ InProtected(self, key)

\* lines 95-100
setitem(self, key, item) ==
    IF SetItemRefused(self, key) THEN MethodResult(self, "ValueError", NoValue)
    ELSE dict_setitem(self, key, item)

\* lines 102-105
delitem(self, key) ==
    IF self.protected = NoAttribute THEN MethodResult(self, "AttributeError", NoValue)
    ELSE IF InProtected(self, key) THEN MethodResult(self, "ValueError", NoValue)
    ELSE dict_delitem(self, key)

\* lines 107-114
clear(self) == MethodResult(self, "TypeError", NoValue)

\* lines 116-123
update(self, args) == MethodResult(self, "TypeError", NoValue)

\* lines 131-142
pop(self, args) ==
    IF Len(args) > 0 /\ self.protected = NoAttribute
    THEN MethodResult(self, "AttributeError", NoValue)
    ELSE IF Len(args) > 0 /\ InProtected(self, args[1])
    THEN MethodResult(self, "ValueError", NoValue)
    ELSE dict_pop(self, args)

\* a method is called on the context and ends
Called(op, args, r) ==
    /\ context' = r.self
    /\ call_result' = [op |-> op, args |-> args, raised |-> r.raised, value |-> r.value]
    /\ UNCHANGED <<managerVars, simVars>>

SetItem(key, item) == Called("setitem", <<key, item>>, setitem(context, key, item))
DelItem(key) == Called("delitem", <<key>>, delitem(context, key))
Pop(args) == Called("pop", args, pop(context, args))
Clear == Called("clear", << >>, clear(context))
Update(args) == Called("update", <<args>>, update(context, args))

\* a context has been constructed; no endpoint manager and no conversation
\* take part
InitContext ==
    /\ context \in {PipelineContext(t, kw) : t \in TransportChoices, kw \in KwargsChoices}
    /\ call_result = NoCallResult
    /\ NoSimulation
    /\ now = RefreshInterval + 1
    /\ PreferredLocations = << >>
    /\ refresh_needed = FALSE
    /\ last_refresh_time = 0
    /\ startup = TRUE
    /\ refresh_task = NoTask
    /\ orphans = << >>
    /\ lock_holder = NoCall
    /\ rnd = IdleRound
    /\ lock_waiters = << >>
    /\ lc = LocationCacheInit
    /\ closer = "open"
    /\ owed = 0
    /\ ev = NoEvent

NextContext ==
    \/ \E key \in ContextKeys, item \in ContextItems : SetItem(key, item)
    \/ \E key \in ContextKeys : DelItem(key)
    \/ \E args \in PopArgs : Pop(args)
    \/ Clear
    \/ \E args \in UpdateArgs : Update(args)

SpecContext == InitContext /\ [][NextContext]_vars

\* ================================================================== claims

\* C1: at most one background health-check task is unfinished at any time: the
\* slow path never creates a task while an earlier one has not finished.
C1_AtMostOneUnfinishedTask == LiveTasks(refresh_task, orphans) <= 1

C3_StartupFalseWhateverOutcome ==
    (ev.op = "force" /\ (ReturnsNormally(ev.how) \/ ev.how = "raised")) => ~startup

\* C3 (amended): after force_refresh_on_startup returned normally startup is
\* false; after it raised the exhaustion error of its foreground round startup
\* is still true, neither line 138 nor line 98 having run.
C3_StartupFalseOnReturnOnly ==
    /\ (ev.op = "force" /\ ReturnsNormally(ev.how)) => ~startup
    /\ (ev.op = "force" /\ ev.how = "raised") => (ev.exhausted /\ startup)

\* force_refresh_on_startup ended with the exhaustion error
C3_ForceRaised == ev.op = "force" /\ ev.how = "raised" /\ ev.exhausted /\ startup

\* C4 (as claimed): a force_refresh_on_startup call made with startup true that
\* returns normally has run a complete round (fetch, probes settled,
\* update_location_cache) before returning and created no background task.
C4_ForceRunsRoundInline ==
    (ev.op = "force" /\ ev.su /\ ReturnsNormally(ev.how))
        => (ev.how = "probed" /\ {"ingest", "update"} \subseteq ev.acts)

\* C4 (amended): the same for a call that found refresh_lock free; a call that
\* had to wait for the lock may find startup cleared or the refresh served.
C4_ForceRunsRoundInlineUnlessWaited ==
    (ev.op = "force" /\ ev.su /\ ~ev.waited /\ ReturnsNormally(ev.how))
        => (ev.how = "probed" /\ {"ingest", "update"} \subseteq ev.acts
            /\ rnd = IdleRound /\ lc.fresh
            /\ LiveTasks(refresh_task, orphans) = 0)

\* a force call made at startup with the lock free returned from its round,
\* which had secondary probes to settle
C4_ForceProbed ==
    /\ ev.op = "force" /\ ev.su /\ ~ev.waited /\ ev.how = "probed"
    /\ "probe" \in ev.acts

C7_Issues(r, r1) ==
    \/ r.st = "created" /\ r1.st = "fetch"
    \/ r.st = "fetch" /\ r1.st = "fetch" /\ r1.idx > r.idx
    \/ r.st = "fetch" /\ r1.st = "gather" /\ r1.pending # {}

\* C7: once close() has returned, no background task the manager launched
\* issues an account fetch or a health-check probe any more.
C7_NoProbeAfterClose ==
    [][closer = "closed" =>
         /\ ~C7_Issues(refresh_task, refresh_task')
         /\ Len(orphans') = Len(orphans) =>
               \A i \in 1..Len(orphans) : ~C7_Issues(orphans[i], orphans'[i])]_vars

\* C8: close() cancels the task held in refresh_task and returns only after it
\* has finished; what the task ended with is swallowed, so close() never
\* raises; with no task held close() returns at once and changes nothing.
C8_CloseCancelsWaitsSwallows ==
    [][/\ closer' # "raised"
       /\ closer' = "closed" => ~RoundLive(refresh_task')
       /\ (closer = "open" /\ closer' = "await") =>
             (RoundLive(refresh_task) /\ refresh_task'.cancel)
       /\ (closer = "await" /\ closer' = "closed") =>
             refresh_task = FinishedRound("cancelled")
       /\ (closer = "open" /\ closer' # "open" /\ refresh_task = NoTask) =>
             (closer' = "closed" /\ UNCHANGED <<refresh_task, closeFrame>>)]_vars

\* close() returned after the task it cancelled had finished
C8_ClosedAfterCancel ==
    ev.how = "closed" /\ closer = "closed" /\ refresh_task.st = "cancelled"

C10_StaleCallStartsRound == ev.stale => ev.how \in {"scheduled", "inline"}

\* C10 (amended): a refresh_endpoint_list / force_refresh_on_startup call made
\* after the staleness interval elapsed waits when refresh_lock is taken; with
\* the lock free it refreshes: by applying the caller's snapshot without a
\* round when one was passed and startup is false, by a round otherwise
\* (inline at startup, as a task after it); the refresh clears refresh_needed
\* and stamps last_refresh_time.
C10_StaleCallRefreshes ==
    [][(/\ now - last_refresh_time > RefreshInterval
        /\ ~ev'.waited
        /\ ev'.how \in {"skipped", "waiting", "applied", "noop", "scheduled",
                        "inline"})
          => IF lock_holder # NoCall \/ lock_waiters # << >>
             THEN ev'.how = "waiting" /\ refresh_needed'
             ELSE /\ ev'.stale
                  /\ ev'.how = (IF ev'.arg /\ ~startup THEN "applied"
                                ELSE IF startup THEN "inline" ELSE "scheduled")
                  /\ last_refresh_time' = now
                  /\ ~refresh_needed']_vars

\* a stale call passed a snapshot after startup: no round was started
C10_StaleCallAppliedSnapshot ==
    ev.how = "applied" /\ ev.stale /\ ev.op = "refresh" /\ lc.snapshot = CallerSnapshot

\* the marks of the candidates after the i-th are what they were
C11_LaterUntouched(i) ==
    \A j \in (i + 1)..Len(PreferredLocations) :
        LET e == Candidate(PreferredLocations, j)
        IN /\ (e \in lc'.unavailRead) = (e \in lc.unavailRead)
           /\ (e \in lc'.unavailWrite) = (e \in lc.unavailWrite)

\* one step of a round r that awaits the fetch of candidate r.idx; won: the
\* fetch returned an account, lost: the error left the round
C11_FetchStep(r, r1, won, lost) ==
    /\ (r.st \in {"idle", "created"} /\ r1.st = "fetch") => r1.idx = 0
    /\ r.st = "gather" => r1.st # "fetch"
    /\ (r.st = "fetch" /\ (r1 # r \/ won \/ lost)) =>
          \/ /\ won
             /\ lc'.snapshot = FetchedSnapshot(Candidate(PreferredLocations, r.idx))
             /\ C11_LaterUntouched(r.idx)
          \/ /\ ~won /\ ~lost
             /\ r.idx < Len(PreferredLocations)
             /\ r1 = [r EXCEPT !.idx = r.idx + 1]
             /\ Candidate(PreferredLocations, r.idx) \in lc'.unavailRead
             /\ lc'.snapshot = lc.snapshot
             /\ C11_LaterUntouched(r.idx)
          \/ /\ lost
             /\ r.idx = Len(PreferredLocations)
             /\ lc'.snapshot = lc.snapshot
          \/ r1 = [r EXCEPT !.cancel = TRUE]
          \/ r1.st = "cancelled"

\* C11: the account fetch of a round starts at the default endpoint and moves
\* to the next preferred location, one at a time in declared order, only when
\* the fetch it awaited failed; once a fetch succeeded the round fetches no
\* more, and the steps of the fetch leave the later locations alone.
C11_FetchInOrderShortCircuit ==
    [][/\ C11_FetchStep(rnd, rnd', rnd'.st = "gather" \/ ev'.how = "probed",
                        ev'.how = "raised")
       /\ C11_FetchStep(refresh_task, refresh_task',
                        refresh_task'.st \in {"gather", "ok"},
                        refresh_task'.st = "error")]_vars

\* the default endpoint failed and West US answered: East US is left for the
\* health-check probes, it was not asked for the account
C11_SecondCandidateWon ==
    /\ rnd.st = "gather" /\ rnd.idx = 1
    /\ lc.snapshot = FetchedSnapshot(GetLocationalEndpoint(DefaultEndpoint, "West US"))
    /\ rnd.pending = {GetLocationalEndpoint(DefaultEndpoint, "East US")}
    /\ GetLocationalEndpoint(DefaultEndpoint, "East US") \notin lc.unavailRead

\* the round r has just got the account from candidate r.idx: its probes are
\* all still to come
C12_JustFetched(r) ==
    /\ r.st = "gather"
    /\ r.pending = {GetLocationalEndpoint(DefaultEndpoint, PreferredLocations[j]) :
                      j \in 1..Len(PreferredLocations)}
                   \ {Candidate(PreferredLocations, r.idx)}

\* the step in which the round r, awaiting candidate r.idx, gets the account
C12_WinnerAndMarks(r, won) ==
    (r.st = "fetch" /\ won) =>
        LET winner == Candidate(PreferredLocations, r.idx)
        IN /\ lc'.snapshot = FetchedSnapshot(winner)
           /\ winner \notin lc'.unavailRead \cup lc'.unavailWrite
           /\ \A j \in 0..(r.idx - 1) :
                 Candidate(PreferredLocations, j) \in lc'.unavailRead \cap lc'.unavailWrite

\* C12: when the account fetch returns, the snapshot ingested is the one of the
\* first candidate that answered, in the order default endpoint, preferred
\* locations; that endpoint is marked available and every candidate tried
\* before it is marked unavailable for read and for write.
C12_FirstReachableWins ==
    [][/\ C12_WinnerAndMarks(rnd, C12_JustFetched(rnd'))
       /\ C12_WinnerAndMarks(refresh_task, C12_JustFetched(refresh_task'))]_vars

\* default and West US failed, East US answered
C12_EastUSWon ==
    /\ C12_JustFetched(rnd) /\ rnd.idx = 2
    /\ lc.snapshot = FetchedSnapshot(GetLocationalEndpoint(DefaultEndpoint, "East US"))
    /\ {DefaultEndpoint, GetLocationalEndpoint(DefaultEndpoint, "West US")}
          \subseteq lc.unavailRead \cap lc.unavailWrite

\* one step of a round r in its batch of probes; done: the round returned
C13_ProbeStep(r, r1, done) ==
    /\ (r.st = "fetch" /\ r1.st = "gather") => C12_JustFetched(r1)
    /\ (r.st = "gather" /\ r1.st = "gather" /\ r1.pending # r.pending) =>
          \E e \in r.pending :
             /\ r1.pending = r.pending \ {e}
             /\ \/ e \notin lc'.unavailRead \cup lc'.unavailWrite
                \/ e \in lc'.unavailRead \cap lc'.unavailWrite
             /\ lc'.unavailRead \ {e} = lc.unavailRead \ {e}
             /\ lc'.unavailWrite \ {e} = lc.unavailWrite \ {e}
             /\ lc'.snapshot = lc.snapshot
    /\ (r.st = "gather" /\ done) => (r.pending = {} /\ lc'.fresh)

\* C13: the batch holds every endpoint of endpoints_to_health_check but the one
\* that served the fetch; each is probed once, its probe marks that endpoint
\* available or unavailable for read and write and no other endpoint, and the
\* batch goes on to its last probe whatever the outcomes.
C13_EachProbedOnceOwnMark ==
    [][/\ C13_ProbeStep(rnd, rnd', ev'.how = "probed")
       /\ C13_ProbeStep(refresh_task, refresh_task', refresh_task'.st = "ok")]_vars

\* the default endpoint served the fetch, the probe of West US failed, the
\* probe of East US succeeded and the round returned
C13_OneFailedOneSucceeded ==
    /\ ev.how = "probed" /\ "probe" \in ev.acts
    /\ lc.snapshot = FetchedSnapshot(DefaultEndpoint)
    /\ GetLocationalEndpoint(DefaultEndpoint, "West US")
          \in lc.unavailRead \cap lc.unavailWrite
    /\ GetLocationalEndpoint(DefaultEndpoint, "East US")
          \notin lc.unavailRead \cup lc.unavailWrite
    /\ lc.fresh

\* C14: with startup false a call that takes the slow path creates the
\* health-check task, stores it in refresh_task and returns in the same step:
\* the task has not started, no fetch or probe of the round was awaited, and
\* the call keeps neither the lock nor a round of its own.
C14_SlowPathSchedulesAndReturns ==
    [][(ev'.how \in {"scheduled", "inline"} /\ ~startup) =>
          /\ ev'.how = "scheduled"
          /\ refresh_task' = CreatedRound
          /\ lock_holder' = NoCall /\ rnd' = IdleRound
          /\ lc' = lc
          /\ ~refresh_needed' /\ last_refresh_time' = now]_vars

\* a stale refresh_endpoint_list call after startup returned with the task
\* created and not yet started
C14_ScheduledAfterStartup ==
    /\ ev.how = "scheduled" /\ ev.op = "refresh" /\ ev.stale /\ ~ev.su
    /\ refresh_task = CreatedRound /\ lock_holder = NoCall

\* C15: get_write_endpoint, get_read_endpoint and _resolve_service_endpoint
\* run in one step in any state, leave refresh_needed, last_refresh_time,
\* startup and refresh_task unchanged, start no round and no task and do not
\* touch refresh_lock or its waiters.
C15_ResolutionIsPureRead ==
    [][ev'.how = "resolved" =>
          UNCHANGED <<refresh_needed, last_refresh_time, startup, refresh_task,
                      orphans, rnd, lock_holder, lock_waiters, lc, closer>>]_vars

\* an endpoint was resolved while a caller held refresh_lock, awaiting the
\* account fetch of its round, with another caller waiting for the lock
C15_ResolvedWhileLocked ==
    /\ ev.how = "resolved"
    /\ lock_holder # NoCall /\ rnd.st = "fetch" /\ lock_waiters # << >>

\* C16: a refresh_endpoint_list call made while refresh_task holds a finished
\* task clears the handle, however the task ended.
C16_HarvestClearsHandle ==
    [][(/\ RoundDone(refresh_task)
        /\ ~ev'.waited
        /\ ev'.how \in {"skipped", "waiting", "applied", "noop", "scheduled",
                        "inline", "raised"}
        /\ ev'.op \in {"refresh", "force"})
          => ~RoundDone(refresh_task')]_vars

\* C17 (as claimed): refresh_needed and last_refresh_time change only in a
\* step in which the caller holds refresh_lock.
C17_WritesUnderLockOnly ==
    [][(refresh_needed' # refresh_needed \/ last_refresh_time' # last_refresh_time)
          => ev'.how \in {"applied", "scheduled", "inline"}]_vars

\* C17 (amended): last_refresh_time is written and refresh_needed is cleared
\* only by a caller that holds refresh_lock (lines 125-126, 129-130);
\* refresh_needed is set to true before the lock is taken (lines 96, 111), as
\* the call that is left waiting for the lock shows.
C17_ClearedAndStampedUnderLock ==
    [][/\ last_refresh_time' # last_refresh_time
             => ev'.how \in {"applied", "scheduled", "inline"}
       /\ (refresh_needed /\ ~refresh_needed')
             => ev'.how \in {"applied", "scheduled", "inline"}
       /\ (~refresh_needed /\ refresh_needed')
             => (ev'.how = "waiting" /\ lock_holder' = lock_holder
                 /\ last_refresh_time' = last_refresh_time)]_vars

\* force_refresh_on_startup set refresh_needed and is left waiting for the
\* lock that another caller holds for its round
C17_SetWhileWaiting ==
    /\ ev.how = "waiting" /\ ev.op = "force" /\ refresh_needed /\ owed = 1
    /\ lock_holder # NoCall /\ rnd.st = "fetch" /\ Len(lock_waiters) = 1

\* C18: while startup is true no background task exists or was ever created,
\* and a round started with startup true is run by the calling coroutine,
\* which keeps refresh_lock while it awaits the round.
C18_ForegroundWhileStartup ==
    [][/\ startup' => (refresh_task' = NoTask /\ orphans' = << >>)
       /\ (ev'.how \in {"scheduled", "inline"} /\ startup) =>
             /\ ev'.how = "inline"
             /\ lock_holder' # NoCall /\ rnd' = StartedRound
             /\ startup'
       /\ (rnd.st \in {"fetch", "gather"} /\ rnd' # rnd /\ rnd'.st \in {"fetch", "gather"})
             => (lock_holder' = lock_holder /\ lock_holder # NoCall /\ startup')]_vars

\* a foreground round is awaiting its probes under the lock, startup still true
C18_InlineRoundUnderLock ==
    /\ startup /\ rnd.st = "gather" /\ lock_holder # NoCall
    /\ refresh_task = NoTask /\ orphans = << >>

\* C19: last_refresh_time never decreases; it is written only in a step in
\* which a refresh runs (the snapshot applied, or the round scheduled or
\* started), and then with the current time; endpoint resolutions, marks and
\* refresh calls that return at line 112 or line 116 leave it unchanged.
C19_LastRefreshTimeMonotone ==
    [][/\ last_refresh_time' >= last_refresh_time
       /\ last_refresh_time' # last_refresh_time =>
             (ev'.how \in {"applied", "scheduled", "inline"}
              /\ last_refresh_time' = now)
       /\ ev'.how \in {"resolved", "marked", "skipped", "collapsed", "waiting"}
             => last_refresh_time' = last_refresh_time]_vars

\* a refresh stamped a later time than the startup refresh did
C19_StampedLater ==
    /\ ev.how \in {"applied", "scheduled"}
    /\ last_refresh_time = now /\ now > RefreshInterval + 1

\* C20: a call that got past line 115 with a database_account and startup false
\* applies the snapshot, clears refresh_needed and stamps last_refresh_time;
\* it starts no round and no task, and the private refresh leaves refresh_task
\* and startup as they were (the call may have cleared a harvested handle at
\* line 107 before).
C20_FastPathAppliesSnapshotOnly ==
    [][/\ (ev'.how \in {"applied", "scheduled", "inline"} /\ ev'.arg /\ ~startup)
             => ev'.how = "applied"
       /\ ev'.how = "applied" =>
             /\ ev'.arg /\ ~startup /\ ~startup'
             /\ lc' = [lc EXCEPT !.snapshot = CallerSnapshot, !.fresh = FALSE]
             /\ ~refresh_needed' /\ last_refresh_time' = now
             /\ \/ refresh_task' = refresh_task
                \/ /\ ~ev'.waited /\ refresh_task.st = "ok"
                   /\ refresh_task' = NoTask
             /\ UNCHANGED <<orphans, rnd, lock_holder>>]_vars

\* a call applied its snapshot while a background task was in flight
C20_AppliedBesideTask ==
    /\ ev.how = "applied" /\ ~refresh_needed /\ last_refresh_time = now
    /\ refresh_task.st = "fetch" /\ lc.snapshot = CallerSnapshot

\* a health-check round is outstanding: created or started and not finished
C21_RoundOutstanding ==
    \/ rnd.st \in {"fetch", "gather"}
    \/ LiveTasks(refresh_task, orphans) > 0

\* C21: the slow path clears refresh_needed and stamps last_refresh_time in the
\* step that creates or starts the round, the task not having run yet; while a
\* round is outstanding and no call that raised the flag again is waiting for
\* the lock, refresh_needed is false.
C21_ClearedBeforeProbing ==
    [][/\ ev'.how \in {"scheduled", "inline"} =>
             /\ ~refresh_needed' /\ last_refresh_time' = now
             /\ ev'.how = "scheduled" => refresh_task' = CreatedRound
             /\ ev'.how = "inline" => rnd' = StartedRound
       /\ (C21_RoundOutstanding' /\ lock_waiters' = << >>) => ~refresh_needed']_vars

\* a background task awaits its probes, nobody waits, the flag is down
C21_TaskProbingFlagDown ==
    /\ refresh_task.st = "gather" /\ lock_waiters = << >> /\ lock_holder = NoCall
    /\ ~refresh_needed /\ last_refresh_time = now

\* one step of a round r; done: the round returned normally in this step
C22_RoundStep(r, r1, done) ==
    /\ (r.st = "fetch" /\ (r1.st = "gather" \/ done)) =>
          LET winner == Candidate(PreferredLocations, r.idx)
              probes == endpoints_to_health_check(lc', PreferredLocations) \ {winner}
          IN /\ lc'.snapshot = FetchedSnapshot(winner)
             /\ IF probes = {}
                THEN done /\ lc'.fresh
                ELSE /\ ~done /\ r1.st = "gather" /\ r1.pending = probes
                     /\ ~lc'.fresh
    /\ (r.st = "gather" /\ r1.st = "gather" /\ r1.pending # r.pending) => ~lc'.fresh
    /\ (r.st = "gather" /\ done) => (r.pending = {} /\ lc'.fresh)

\* C22: in a round the snapshot of the winning endpoint is ingested first, the
\* probes are those of the endpoints the cache names after that, and
\* update_location_cache runs once, in the step in which the round returns,
\* with no probe of the round left unsettled.
C22_IngestProbeUpdateInOrder ==
    [][/\ C22_RoundStep(rnd, rnd', ev'.how = "probed")
       /\ C22_RoundStep(refresh_task, refresh_task', refresh_task'.st = "ok")]_vars

\* a background round with a probe to settle has returned and left the cache
\* recomputed from the snapshot it fetched
C22_TaskRoundComplete ==
    /\ refresh_task.st = "ok" /\ Len(PreferredLocations) > 0
    /\ lc.fresh /\ lc.snapshot = FetchedSnapshot(DefaultEndpoint)

\* C23 (as claimed): as long as no refresh has run since construction
\* (last_refresh_time is 0) refresh_needed is true, startup is true and there
\* is no task.
C23_ConstructedWithFlagRaised ==
    last_refresh_time = 0 =>
        (refresh_needed /\ startup /\ refresh_task = NoTask /\ orphans = << >>)

\* C23 (amended): the manager is constructed with refresh_needed false,
\* last_refresh_time 0, startup true and no task; the first
\* refresh_endpoint_list or force_refresh_on_startup call finds the state
\* stale at line 110, raises the flag and runs a round in the foreground.
C23_FirstCallRefreshesInForeground ==
    [][/\ last_refresh_time' = 0 =>
             (~refresh_needed' /\ startup' /\ refresh_task' = NoTask
              /\ orphans' = << >> /\ lc' = LocationCacheInit)
       /\ (last_refresh_time = 0 /\ ev'.op \in {"refresh", "force"}) =>
             /\ ev'.how = "inline" /\ ev'.stale
             /\ rnd' = StartedRound /\ lock_holder' # NoCall
             /\ last_refresh_time' = now /\ ~refresh_needed']_vars

\* the first call after construction, a refresh_endpoint_list without
\* snapshot, is awaiting the account fetch of its foreground round
C23_FirstCallInline ==
    /\ ev.how = "inline" /\ ev.op = "refresh" /\ ev.stale /\ ~ev.arg
    /\ rnd = StartedRound /\ lc = LocationCacheInit

\* C24: a call that runs the private refresh while startup is true never
\* applies the database_account it was given: it starts the health-check
\* round in the foreground with the cache untouched, and as long as that round
\* holds the lock the only snapshot the cache ingests is a fetched one.
C24_StartupIgnoresGivenSnapshot ==
    [][/\ ev'.how = "applied" => ~startup
       /\ (startup /\ ev'.arg) =>
             /\ ev'.how = "inline" /\ rnd' = StartedRound
             /\ lc' = lc /\ lock_holder'.op = ev'.op
       /\ (lock_holder # NoCall /\ lc'.snapshot # lc.snapshot) =>
             /\ rnd.st = "fetch"
             /\ lc'.snapshot = FetchedSnapshot(Candidate(PreferredLocations, rnd.idx))]_vars

\* force_refresh_on_startup(database_account) has started the foreground
\* round and nothing was ingested
C24_ForceWithSnapshotProbes ==
    /\ ev.how = "inline" /\ ev.op = "force" /\ ev.arg /\ startup
    /\ rnd = StartedRound /\ lc.snapshot = NoSnapshot

\* C25: a private refresh run by refresh_endpoint_list never falls through
\* line 128: it applies the snapshot or starts a round (as a task or inline)
\* and leaves refresh_needed false; a call that waited for the lock found the
\* flag still raised; and a step taken with one answer of
\* should_refresh_endpoints() is the step taken with the other answer.
C25_PrivateRefreshAlwaysWorks ==
    [][/\ ev'.how # "noop"
       /\ ev'.how \in {"applied", "scheduled", "inline"} =>
             /\ ~refresh_needed' /\ last_refresh_time' = now
             /\ ev'.waited => refresh_needed
       /\ \A o \in {"refresh", "force"}, a \in BOOLEAN :
             Call(o, a, TRUE) <=> Call(o, a, FALSE)
       /\ \A a \in BOOLEAN : Acquire(a, TRUE) <=> Acquire(a, FALSE)]_vars

\* a call that waited for the lock has scheduled a round behind a task that
\* is still running
C25_WaiterScheduled ==
    /\ ev.how = "scheduled" /\ ev.waited /\ ~refresh_needed
    /\ refresh_task = CreatedRound /\ orphans # << >>

\* the last round to end has failed: the task in refresh_task ended with an
\* error, or a foreground round was started and startup is still true
C26_FailedRound ==
    \/ refresh_task.st = "error"
    \/ startup /\ last_refresh_time # 0 /\ lock_holder = NoCall

\* C26: the step in which a round fails leaves refresh_needed and
\* last_refresh_time as they were; after a failed round, with the flag down and
\* within the refresh interval of the stamp, a refresh_endpoint_list call
\* returns without starting a round; once the interval has passed, or when
\* force_refresh_on_startup is called, a call that gets the lock at once
\* starts a round, unless it is past startup and was given a snapshot.
C26_FailureKeepsFlagAndStamp ==
    [][/\ (\/ rnd.st # "idle" /\ ev'.how = "raised"
           \/ refresh_task.st # "error" /\ refresh_task'.st = "error") =>
             (refresh_needed' = refresh_needed /\ last_refresh_time' = last_refresh_time)
       /\ (C26_FailedRound /\ ~refresh_needed /\ ev'.op = "refresh"
             /\ now <= last_refresh_time + RefreshInterval) =>
             /\ ev'.how \in {"skipped", "collapsed"}
             /\ rnd' = rnd /\ refresh_task' = refresh_task /\ orphans' = orphans
             /\ last_refresh_time' = last_refresh_time
       /\ (C26_FailedRound /\ ev'.op \in {"refresh", "force"}
             /\ ~ev'.waited /\ ev'.how # "waiting"
             /\ (ev'.op = "force" \/ now > last_refresh_time + RefreshInterval)) =>
             /\ ev'.how \in {"inline", "scheduled", "applied"}
             /\ ev'.how = "applied" <=> (ev'.arg /\ ~startup)
             /\ last_refresh_time' = now]_vars

\* after a failed round a refresh_endpoint_list call within the interval has
\* returned without refreshing
C26_SkippedAfterFailure ==
    /\ ev.how = "skipped" /\ ev.op = "refresh" /\ C26_FailedRound
    /\ ~refresh_needed /\ last_refresh_time = now

\* C27: a caller holds refresh_lock across a suspension only while it awaits
\* the fetch or the probes of the foreground round, and then startup is true;
\* so with startup false the calls queued on the lock wait behind no holder.
C27_LockHeldOverIOOnlyAtStartup ==
    /\ lock_holder # NoCall => (startup /\ rnd.st \in {"fetch", "gather"})
    /\ rnd.st # "idle" => lock_holder # NoCall
    /\ (~startup /\ lock_waiters # << >>) => (lock_holder = NoCall /\ rnd = IdleRound)

\* a call is queued on the lock while the holder awaits its secondary probes
C27_WaiterBehindStartupProbe ==
    /\ lock_holder # NoCall /\ rnd.st = "gather" /\ rnd.pending # {}
    /\ lock_waiters # << >> /\ startup

\* C28: the step in which the foreground round raises (or returns) releases
\* refresh_lock; hence, every fetch and probe ending, a caller holding the lock
\* eventually has left it, and whenever calls wait for the lock one of them
\* (the first in line) eventually gets it.
C28_LockReleasedAndProgress ==
    /\ [][(rnd.st # "idle" /\ ev'.how \in {"raised", "probed"}) =>
             (lock_holder' = NoCall /\ rnd' = IdleRound)]_vars
    /\ (lock_holder # NoCall) ~> (lock_holder = NoCall)
    /\ (lock_waiters # << >>) ~> (ev.waited /\ ev.how # "waiting")

\* the foreground round has raised with a call waiting for the lock
C28_RaisedWithWaiter ==
    /\ ev.how = "raised" /\ ev.err # NoError /\ lock_holder = NoCall
    /\ lock_waiters # << >> /\ startup

C29_MaxCalls == IF turn_limit > 1 THEN turn_limit ELSE 1

C30_TurnErrorSwallowed ==
    [][/\ pc = "turn" =>
             /\ pc' = "sleep" /\ current_turn' = current_turn + 1
             /\ outcome' \in {"warned", "appended"}
             /\ outcome' = "warned" <=> conversation_history' = conversation_history
             /\ outcome' = "appended" <=>
                   Len(conversation_history') = Len(conversation_history) + 1
       /\ (pc = "sleep" /\ outcome = "warned" /\ pc' = "turn") =>
             /\ calls'[Len(calls')] = current_turn % Len(bots)
             /\ calls'[Len(calls')] = (calls[Len(calls)] + 1) % Len(bots)
             /\ conversation_history' = conversation_history]_vars

\* the assistant's turn failed and the third bot is being asked, the history
\* still holding the first prompt only
C30_NextBotAfterFailure ==
    /\ pc = "turn" /\ outcome = "warned" /\ calls = <<0, 1, 2>>
    /\ Len(conversation_history) = 1 /\ current_turn = 2

\* the entries e without the key
C31_Without(e, key) == [k \in DOMAIN e \ {key} |-> e[k]]

\* C31: a __setitem__, __delitem__ or pop whose key is "transport" or
\* "options" raises ValueError and leaves the context as it was, so neither
\* key is ever among the entries; with another key the operation does what
\* dict does: assignment stores the item, deletion and pop remove a present
\* key (pop returning its value), pop of an absent key returns the default or
\* raises KeyError, deletion of an absent key raises KeyError, pop without
\* arguments raises TypeError; transport and options are never touched.
C31_ProtectedKeysRefused ==
    /\ [](DOMAIN context.entries \cap {"transport", "options"} = {})
    /\ [][LET op == call_result'.op
               args == call_result'.args
               raised == call_result'.raised
               e == context.entries
               e1 == context'.entries
           IN (op \in {"setitem", "delitem", "pop"}) =>
                /\ context'.transport = context.transport
                /\ context'.options = context.options
                /\ IF args = << >> THEN raised = "TypeError" /\ e1 = e
                   ELSE IF args[1] \in {"transport", "options"}
                   THEN raised = "ValueError" /\ context' = context
                   ELSE IF op = "setitem"
                   THEN /\ raised = "none"
                        /\ DOMAIN e1 = DOMAIN e \cup {args[1]}
                        /\ e1[args[1]] = args[2]
                        /\ C31_Without(e1, args[1]) = C31_Without(e, args[1])
                   ELSE IF args[1] \in DOMAIN e
                   THEN /\ raised = "none"
                        /\ e1 = C31_Without(e, args[1])
                        /\ op = "pop" => call_result'.value = e[args[1]]
                   ELSE /\ e1 = e
                        /\ IF op = "pop" /\ Len(args) = 2
                           THEN raised = "none" /\ call_result'.value = args[2]
                           ELSE raised = "KeyError"]_vars

\* pop("transport", default) has raised ValueError on a context that holds
\* entries
C31_PopTransportRefused ==
    /\ call_result.op = "pop" /\ Len(call_result.args) = 2
    /\ call_result.args[1] = "transport" /\ call_result.raised = "ValueError"
    /\ DOMAIN context.entries = {"deserialized_data", "retry_count"}

\* C32: clear() and update(...) raise TypeError whatever the argument and the
\* state of the context, and leave entries, transport and options as they were.
C32_ClearAndUpdateRaise ==
    [][call_result'.op \in {"clear", "update"} =>
          /\ call_result'.raised = "TypeError"
          /\ context'.entries = context.entries
          /\ context'.transport = context.transport
          /\ context'.options = context.options]_vars

\* clear() has raised on a context that holds an entry, a transport and options
C32_ClearRaisedOnFilledContext ==
    /\ call_result.op = "clear" /\ call_result.raised = "TypeError"
    /\ DOMAIN context.entries # {} /\ context.transport # NoValue
    /\ context.options # EmptyDict
====
